---------------------------- MODULE Spec2Model ----------------------------
(***************************************************************************)
(* Model of the route actions of the ryot frontend:                        *)
(*   - action.progressUpdate of _dashboard.media.item.$id._index.tsx,      *)
(*     which expands one submitted progress form into a batch of           *)
(*     progress-update records and sends the batch in one request;         *)
(*   - action.deployImport of                                              *)
(*     _dashboard.settings.imports-and-exports._index.tsx, which shapes    *)
(*     the submitted import form into the payload of the selected source   *)
(*     and sends one deploy-import-job request.                            *)
(* One behaviour is one invocation of one handler: the handlers keep no    *)
(* state between two HTTP requests.  Spec is the progress route,           *)
(* SpecImport the import route.                                            *)
(***************************************************************************)
EXTENDS Integers, Sequences, FiniteSets

VARIABLES pc, submission, updates, needsFinalUpdate, error, requests, toast,
          source, formData, values, jobs

importVars == <<source, formData, values, jobs>>

vars == <<pc, submission, updates, needsFinalUpdate, error, requests, toast,
          source, formData, values, jobs>>

(***************************************************************************)
(* Bounds of the model.                                                    *)
(***************************************************************************)
MaxSeasons == 2
MaxSeasonNumber == 2
MaxEpisodes == 2
MaxPodcastEpisodes == 2
MaxUnit == 5

(***************************************************************************)
(* Optional values: a field that zod leaves undefined is the empty tuple,  *)
(* a present value v is the one-element tuple <<v>>.                       *)
(***************************************************************************)
Undefined == <<>>

Some(v) == <<v>>

Opt(S) == {Undefined} \cup {Some(v) : v \in S}

\* JavaScript truthiness of an optional number: undefined and 0 are falsy.
Truthy(v) == v # Undefined /\ v[1] # 0

MetadataLot == {"ANIME", "MANGA", "SHOW", "PODCAST", "BOOK", "MOVIE"}

(***************************************************************************)
(* Sequences over S of length at most n.                                   *)
(***************************************************************************)
SeqsUpTo(S, n) == UNION {[1..k -> S] : k \in 0..n}

Ascending(k) == [i \in 1..k |-> i]

Descending(k) == [i \in 1..k |-> k + 1 - i]

(***************************************************************************)
(* The structures a form can carry.  showSpecifics is a list of            *)
(* {seasonNumber, episodes}; podcastSpecifics a list of {episodeNumber}.   *)
(* Episode lists are the runs 1..k, in listing order and reversed.         *)
(***************************************************************************)
EpisodeLists ==
    {Ascending(k) : k \in 0..MaxEpisodes} \cup {Descending(k) : k \in 0..MaxEpisodes}

Seasons == [seasonNumber : 1..MaxSeasonNumber, episodes : EpisodeLists]

\* The show of the specification's example: seasons 1, 2, 3 with episodes
\* [1,2], [1], [1,2,3].
ExampleShow ==
    << [seasonNumber |-> 1, episodes |-> <<1, 2>>],
       [seasonNumber |-> 2, episodes |-> <<1>>],
       [seasonNumber |-> 3, episodes |-> <<1, 2, 3>>] >>

ShowStructures == SeqsUpTo(Seasons, MaxSeasons) \cup {ExampleShow}

PodcastStructures ==
    {[i \in 1..Len(q) |-> [episodeNumber |-> q[i]]] : q \in EpisodeLists}
        \cup SeqsUpTo([episodeNumber : 1..MaxPodcastEpisodes], MaxPodcastEpisodes)

Dates == Opt({"2024-01-01"})

(***************************************************************************)
(* progressUpdateSchema merged with metadataIdSchema and                   *)
(* MetadataSpecificsSchema: the parsed form.                               *)
(***************************************************************************)
BlankSubmission ==
    [ metadataLot            |-> "BOOK",
      metadataId             |-> 1,
      date                   |-> Undefined,
      showSpecifics          |-> Undefined,
      podcastSpecifics       |-> Undefined,
      showAllSeasonsBefore   |-> FALSE,
      onlySeason             |-> FALSE,
      completeShow           |-> FALSE,
      completePodcast        |-> FALSE,
      animeAllEpisodesBefore |-> FALSE,
      mangaAllChaptersBefore |-> FALSE,
      showSeasonNumber       |-> Undefined,
      showEpisodeNumber      |-> Undefined,
      podcastEpisodeNumber   |-> Undefined,
      animeEpisodeNumber     |-> Undefined,
      mangaChapterNumber     |-> Undefined ]


(***************************************************************************)
(* The forms ProgressUpdateModal renders, by metadataLot, and hand-made    *)
(* posts that set the flags of another lot.                                *)
(***************************************************************************)
SingleForm(l, d) == [BlankSubmission EXCEPT !.metadataLot = l, !.date = d]

AnimeForm(d, n, b) ==
    [BlankSubmission EXCEPT !.metadataLot = "ANIME", !.date = d,
                            !.animeEpisodeNumber = n,
                            !.animeAllEpisodesBefore = b]

MangaForm(d, n, b) ==
    [BlankSubmission EXCEPT !.metadataLot = "MANGA", !.date = d,
                            !.mangaChapterNumber = n,
                            !.mangaAllChaptersBefore = b]

\* The checkbox showAllSeasonsBefore is rendered only with onlySeason.
ShowFlags ==
    {f \in [completeShow : BOOLEAN, onlySeason : BOOLEAN, showAllSeasonsBefore : BOOLEAN] :
        f.showAllSeasonsBefore => f.onlySeason}

\* A season or whole-show request carries no episode number.
ShowForm(S, f, n) ==
    [BlankSubmission EXCEPT !.metadataLot = "SHOW",
                            !.showSpecifics = S,
                            !.completeShow = f.completeShow,
                            !.onlySeason = f.onlySeason,
                            !.showAllSeasonsBefore = f.showAllSeasonsBefore,
                            !.showSeasonNumber = n,
                            !.showEpisodeNumber = IF f.onlySeason \/ f.completeShow
                                                  THEN Undefined ELSE Some(1)]

PodcastForm(d, P, c, n) ==
    [BlankSubmission EXCEPT !.metadataLot = "PODCAST", !.date = d,
                            !.podcastSpecifics = P,
                            !.completePodcast = c,
                            !.podcastEpisodeNumber = n]

ForeignShow ==
    << [seasonNumber |-> 1, episodes |-> <<1, 2>>],
       [seasonNumber |-> 2, episodes |-> <<1>>] >>

ForeignPodcast == << [episodeNumber |-> 1], [episodeNumber |-> 2] >>

\* f: completeShow, onlySeason, showAllSeasonsBefore, completePodcast,
\* animeAllEpisodesBefore, mangaAllChaptersBefore; n: showSeasonNumber,
\* animeEpisodeNumber, mangaChapterNumber, the pair (metadataId, date), and
\* whether the structures are posted.
ForeignForm(l, f, n) ==
    [BlankSubmission EXCEPT !.metadataLot = l,
                            !.metadataId = n[4][1],
                            !.date = n[4][2],
                            !.showSpecifics =
                                IF n[5] THEN Some(ForeignShow) ELSE Undefined,
                            !.podcastSpecifics =
                                IF n[5] THEN Some(ForeignPodcast) ELSE Undefined,
                            !.completeShow = f[1],
                            !.onlySeason = f[2],
                            !.showAllSeasonsBefore = f[3],
                            !.completePodcast = f[4],
                            !.animeAllEpisodesBefore = f[5],
                            !.mangaAllChaptersBefore = f[6],
                            !.showSeasonNumber = n[1],
                            !.animeEpisodeNumber = n[2],
                            !.mangaChapterNumber = n[3]]

(***************************************************************************)
(* action.progressUpdate, the synchronous part: the expansion of the       *)
(* submission into the list `updates`.                                     *)
(***************************************************************************)

\* Faulty variant of variables: showEpisodeNumber is read from the podcast
\* field.
variables_WrongEpisodeField(s) ==
    [ metadataId           |-> s.metadataId,
      progress             |-> 100,
      date                 |-> s.date,
      showSeasonNumber     |-> s.showSeasonNumber,
      showEpisodeNumber    |-> s.podcastEpisodeNumber,
      podcastEpisodeNumber |-> s.podcastEpisodeNumber,
      animeEpisodeNumber   |-> s.animeEpisodeNumber,
      mangaChapterNumber   |-> s.mangaChapterNumber ]

\* const variables = {...}: the flat record of the submission.
variables(s) ==
    [ metadataId           |-> s.metadataId,
      progress             |-> 100,
      date                 |-> s.date,
      showSeasonNumber     |-> s.showSeasonNumber,
      showEpisodeNumber    |-> s.showEpisodeNumber,
      podcastEpisodeNumber |-> s.podcastEpisodeNumber,
      animeEpisodeNumber   |-> s.animeEpisodeNumber,
      mangaChapterNumber   |-> s.mangaChapterNumber ]

\* showSpecificsSchema.parse(JSON.parse(submission.showSpecifics || "[]")):
\* a missing or empty field reads as the empty list.
showSpecifics(s) == IF s.showSpecifics = Undefined THEN <<>> ELSE s.showSpecifics[1]

podcastSpecifics(s) ==
    IF s.podcastSpecifics = Undefined THEN <<>> ELSE s.podcastSpecifics[1]

\* Faulty variant of AnimeLoop: the loop counts from 0 to n - 1.
AnimeLoop_FromZero(s) ==
    LET n == s.animeEpisodeNumber[1]
    IN  [i \in 1..n |-> [variables(s) EXCEPT !.animeEpisodeNumber = Some(i - 1)]]

\* for (let i = 1; i <= n; i++) updates.push({...variables, animeEpisodeNumber: i})
AnimeLoop(s) ==
    LET n == s.animeEpisodeNumber[1]
    IN  [i \in 1..n |-> [variables(s) EXCEPT !.animeEpisodeNumber = Some(i)]]

\* Faulty variant of MangaLoop: the loop writes the anime field.
MangaLoop_WritesAnimeField(s) ==
    LET n == s.mangaChapterNumber[1]
    IN  [i \in 1..n |-> [variables(s) EXCEPT !.animeEpisodeNumber = Some(i)]]

MangaLoop(s) ==
    LET n == s.mangaChapterNumber[1]
    IN  [i \in 1..n |-> [variables(s) EXCEPT !.mangaChapterNumber = Some(i)]]

\* Faulty variant of SeasonLoop: the record is built without the date.
SeasonLoop_DropsDate(s, season) ==
    [j \in 1..Len(season.episodes) |->
        [variables(s) EXCEPT !.date = Undefined,
                             !.showSeasonNumber = Some(season.seasonNumber),
                             !.showEpisodeNumber = Some(season.episodes[j])]]

\* Faulty variant of SeasonLoop: the episodes are pushed last to first.
SeasonLoop_Reversed(s, season) ==
    [j \in 1..Len(season.episodes) |->
        [variables(s) EXCEPT
            !.showSeasonNumber = Some(season.seasonNumber),
            !.showEpisodeNumber = Some(season.episodes[Len(season.episodes) + 1 - j])]]

\* The inner loop over season.episodes of the completeShow and the
\* showAllSeasonsBefore branches: both fields are overwritten.
SeasonLoop(s, season) ==
    [j \in 1..Len(season.episodes) |->
        [variables(s) EXCEPT !.showSeasonNumber = Some(season.seasonNumber),
                             !.showEpisodeNumber = Some(season.episodes[j])]]

\* for (const season of showSpecifics) for (const episode of season.episodes)
RECURSIVE CompleteShowLoop(_, _)
CompleteShowLoop(s, seasons) ==
    IF seasons = <<>> THEN <<>>
    ELSE SeasonLoop(s, Head(seasons)) \o CompleteShowLoop(s, Tail(seasons))

\* Faulty variant of FindSeason: the last match instead of the first.
FindSeason_LastMatch(seasons, number) ==
    LET hits == {k \in 1..Len(seasons) : Some(seasons[k].seasonNumber) = number}
    IN  IF hits = {} THEN 0 ELSE CHOOSE k \in hits : \A h \in hits : k >= h

\* showSpecifics.find((s) => s.seasonNumber === submission.showSeasonNumber):
\* the index of the first match, 0 when there is none.
FindSeason(seasons, number) ==
    LET hits == {k \in 1..Len(seasons) : Some(seasons[k].seasonNumber) = number}
    IN  IF hits = {} THEN 0 ELSE CHOOSE k \in hits : \A h \in hits : k <= h

\* Faulty variant of SeasonsBeforeLoop: `continue` in place of `break`.
RECURSIVE SeasonsBeforeLoop_Continue(_, _, _)
SeasonsBeforeLoop_Continue(s, seasons, selectedSeason) ==
    IF seasons = <<>> THEN <<>>
    ELSE IF Head(seasons).seasonNumber > selectedSeason.seasonNumber
         THEN SeasonsBeforeLoop_Continue(s, Tail(seasons), selectedSeason)
    ELSE SeasonLoop(s, Head(seasons))
            \o SeasonsBeforeLoop_Continue(s, Tail(seasons), selectedSeason)

\* Faulty variant of SeasonsBeforeLoop: the season number is compared after
\* the season's episodes were pushed.
RECURSIVE SeasonsBeforeLoop_BreakAfterPush(_, _, _)
SeasonsBeforeLoop_BreakAfterPush(s, seasons, selectedSeason) ==
    IF seasons = <<>> THEN <<>>
    ELSE IF Head(seasons).seasonNumber > selectedSeason.seasonNumber
         THEN SeasonLoop(s, Head(seasons))
    ELSE SeasonLoop(s, Head(seasons))
            \o SeasonsBeforeLoop_BreakAfterPush(s, Tail(seasons), selectedSeason)

\* Faulty variant of SeasonsBeforeLoop: `>=` in place of `>`, the scan
\* stops at the target season.
RECURSIVE SeasonsBeforeLoop_BreakAtTarget(_, _, _)
SeasonsBeforeLoop_BreakAtTarget(s, seasons, selectedSeason) ==
    IF seasons = <<>> THEN <<>>
    ELSE IF Head(seasons).seasonNumber >= selectedSeason.seasonNumber THEN <<>>
    ELSE SeasonLoop(s, Head(seasons))
            \o SeasonsBeforeLoop_BreakAtTarget(s, Tail(seasons), selectedSeason)

\* for (const season of showSpecifics) {
\*   if (season.seasonNumber > selectedSeason.seasonNumber) break; ... }
RECURSIVE SeasonsBeforeLoop(_, _, _)
SeasonsBeforeLoop(s, seasons, selectedSeason) ==
    IF seasons = <<>> THEN <<>>
    ELSE IF Head(seasons).seasonNumber > selectedSeason.seasonNumber THEN <<>>
    ELSE SeasonLoop(s, Head(seasons))
            \o SeasonsBeforeLoop(s, Tail(seasons), selectedSeason)

\* for (const episode of selectedSeason.episodes || []): only the episode
\* number is overwritten, the season number is the submitted one.
SelectedSeasonLoop(s, selectedSeason) ==
    [j \in 1..Len(selectedSeason.episodes) |->
        [variables(s) EXCEPT !.showEpisodeNumber = Some(selectedSeason.episodes[j])]]

\* Faulty variant of PodcastLoop: the position in the list is pushed in
\* place of the episode's number.
PodcastLoop_PushesIndex(s) ==
    LET episodes == podcastSpecifics(s)
    IN  [j \in 1..Len(episodes) |->
            [variables(s) EXCEPT !.podcastEpisodeNumber = Some(j)]]

\* for (const episode of podcastSpecifics)
PodcastLoop(s) ==
    LET episodes == podcastSpecifics(s)
    IN  [j \in 1..Len(episodes) |->
            [variables(s) EXCEPT !.podcastEpisodeNumber = Some(episodes[j].episodeNumber)]]

(***************************************************************************)
(* The if-blocks of the handler, each a step on the pair of locals         *)
(* (updates, needsFinalUpdate) and the thrown error, if any.               *)
(***************************************************************************)
NoError == "none"

Start == [updates |-> <<>>, needsFinalUpdate |-> TRUE, error |-> NoError]

\* Faulty variant of AnimeBranch: the checkbox is not consulted.
AnimeBranch_IgnoresCheckbox(s, st) ==
    IF s.metadataLot = "ANIME" /\ Truthy(s.animeEpisodeNumber)
    THEN [st EXCEPT !.updates = @ \o AnimeLoop(s), !.needsFinalUpdate = FALSE]
    ELSE st

AnimeBranch(s, st) ==
    IF s.metadataLot = "ANIME" /\ Truthy(s.animeEpisodeNumber)
            /\ s.animeAllEpisodesBefore
    THEN [st EXCEPT !.updates = @ \o AnimeLoop(s), !.needsFinalUpdate = FALSE]
    ELSE st

MangaBranch(s, st) ==
    IF s.metadataLot = "MANGA" /\ Truthy(s.mangaChapterNumber)
            /\ s.mangaAllChaptersBefore
    THEN [st EXCEPT !.updates = @ \o MangaLoop(s), !.needsFinalUpdate = FALSE]
    ELSE st

\* Faulty variant of CompleteShowBranch: needsFinalUpdate is left set.
CompleteShowBranch_KeepsFinalUpdate(s, st) ==
    IF s.metadataLot = "SHOW" /\ s.completeShow
    THEN [st EXCEPT !.updates = @ \o CompleteShowLoop(s, showSpecifics(s))]
    ELSE st

\* Faulty variant of CompleteShowBranch: the block is not nested in the
\* test of the lot.
CompleteShowBranch_IgnoresLot(s, st) ==
    IF s.completeShow
    THEN [st EXCEPT !.updates = @ \o CompleteShowLoop(s, showSpecifics(s)),
                    !.needsFinalUpdate = FALSE]
    ELSE st

\* Faulty variant of CompleteShowBranch: the two Show blocks are made
\* exclusive, completeShow yields to onlySeason.
CompleteShowBranch_UnlessOnlySeason(s, st) ==
    IF s.metadataLot = "SHOW" /\ s.completeShow /\ ~s.onlySeason
    THEN [st EXCEPT !.updates = @ \o CompleteShowLoop(s, showSpecifics(s)),
                    !.needsFinalUpdate = FALSE]
    ELSE st

CompleteShowBranch(s, st) ==
    IF s.metadataLot = "SHOW" /\ s.completeShow
    THEN [st EXCEPT !.updates = @ \o CompleteShowLoop(s, showSpecifics(s)),
                    !.needsFinalUpdate = FALSE]
    ELSE st

\* Faulty variant of OnlySeasonBranch: needsFinalUpdate is left set.
OnlySeasonBranch_KeepsFinalUpdate(s, st) ==
    IF s.metadataLot = "SHOW" /\ s.onlySeason
    THEN LET k == FindSeason(showSpecifics(s), s.showSeasonNumber)
         IN  IF k = 0
             THEN [st EXCEPT !.error = "No season selected"]
             ELSE [st EXCEPT
                     !.updates = @ \o
                        (IF s.showAllSeasonsBefore
                         THEN SeasonsBeforeLoop(s, showSpecifics(s), showSpecifics(s)[k])
                         ELSE SelectedSeasonLoop(s, showSpecifics(s)[k]))]
    ELSE st

\* Faulty variant of OnlySeasonBranch: no invariant(), a missing season is
\* read as a season without episodes (selectedSeason?.episodes || []).
OnlySeasonBranch_NoInvariant(s, st) ==
    IF s.metadataLot = "SHOW" /\ s.onlySeason
    THEN LET k == FindSeason(showSpecifics(s), s.showSeasonNumber)
         IN  IF k = 0
             THEN [st EXCEPT !.needsFinalUpdate = FALSE]
             ELSE [st EXCEPT
                     !.needsFinalUpdate = FALSE,
                     !.updates = @ \o
                        (IF s.showAllSeasonsBefore
                         THEN SeasonsBeforeLoop(s, showSpecifics(s), showSpecifics(s)[k])
                         ELSE SelectedSeasonLoop(s, showSpecifics(s)[k]))]
    ELSE st

\* Faulty variant of OnlySeasonBranch: needsFinalUpdate is cleared only
\* when the loop pushed a record.
OnlySeasonBranch_ClearsOnlyWhenPushed(s, st) ==
    IF s.metadataLot = "SHOW" /\ s.onlySeason
    THEN LET k == FindSeason(showSpecifics(s), s.showSeasonNumber)
         IN  IF k = 0
             THEN [st EXCEPT !.error = "No season selected"]
             ELSE LET pushed == IF s.showAllSeasonsBefore
                                THEN SeasonsBeforeLoop(s, showSpecifics(s), showSpecifics(s)[k])
                                ELSE SelectedSeasonLoop(s, showSpecifics(s)[k])
                  IN  [st EXCEPT
                         !.needsFinalUpdate = IF pushed = <<>> THEN @ ELSE FALSE,
                         !.updates = @ \o pushed]
    ELSE st

\* Faulty variant of OnlySeasonBranch: a found season without episodes
\* fails the invariant() as a missing season does.
OnlySeasonBranch_RequiresEpisodes(s, st) ==
    IF s.metadataLot = "SHOW" /\ s.onlySeason
    THEN LET k == FindSeason(showSpecifics(s), s.showSeasonNumber)
         IN  IF k = 0 \/ showSpecifics(s)[IF k = 0 THEN 1 ELSE k].episodes = <<>>
             THEN [st EXCEPT !.error = "No season selected"]
             ELSE [st EXCEPT
                     !.needsFinalUpdate = FALSE,
                     !.updates = @ \o
                        (IF s.showAllSeasonsBefore
                         THEN SeasonsBeforeLoop(s, showSpecifics(s), showSpecifics(s)[k])
                         ELSE SelectedSeasonLoop(s, showSpecifics(s)[k]))]
    ELSE st

OnlySeasonBranch(s, st) ==
    IF s.metadataLot = "SHOW" /\ s.onlySeason
    THEN LET k == FindSeason(showSpecifics(s), s.showSeasonNumber)
         IN  IF k = 0
             THEN [st EXCEPT !.error = "No season selected"]
             ELSE [st EXCEPT
                     !.needsFinalUpdate = FALSE,
                     !.updates = @ \o
                        (IF s.showAllSeasonsBefore
                         THEN SeasonsBeforeLoop(s, showSpecifics(s), showSpecifics(s)[k])
                         ELSE SelectedSeasonLoop(s, showSpecifics(s)[k]))]
    ELSE st

\* Faulty variant of PodcastBranch: needsFinalUpdate is left set.
PodcastBranch_KeepsFinalUpdate(s, st) ==
    IF st.error = NoError /\ s.metadataLot = "PODCAST" /\ s.completePodcast
    THEN [st EXCEPT !.updates = @ \o PodcastLoop(s)]
    ELSE st

PodcastBranch(s, st) ==
    IF st.error = NoError /\ s.metadataLot = "PODCAST" /\ s.completePodcast
    THEN [st EXCEPT !.updates = @ \o PodcastLoop(s), !.needsFinalUpdate = FALSE]
    ELSE st

\* Faulty variant of FinalUpdate: a Show submission never gets the final
\* record.
FinalUpdate_SkipsShow(s, st) ==
    IF st.error = NoError /\ st.needsFinalUpdate /\ s.metadataLot # "SHOW"
    THEN [st EXCEPT !.updates = Append(@, variables(s))]
    ELSE st

\* if (needsFinalUpdate) updates.push(variables)
FinalUpdate(s, st) ==
    IF st.error = NoError /\ st.needsFinalUpdate
    THEN [st EXCEPT !.updates = Append(@, variables(s))]
    ELSE st

Expand(s) ==
    FinalUpdate(s,
      PodcastBranch(s,
        OnlySeasonBranch(s,
          CompleteShowBranch(s,
            MangaBranch(s,
              AnimeBranch(s, Start))))))


(***************************************************************************)
(* action.deployImport: the import sources, the form schemas and the       *)
(* dispatch on the source.                                                 *)
(***************************************************************************)
ImportSource ==
    {"Goodreads", "Trakt", "Audiobookshelf", "MediaTracker", "Movary",
     "StoryGraph", "Mal", "StrongApp", "MediaJson", "PeopleJson",
     "WorkoutsJson", "MeasurementsJson"}

\* The names of the inputs of the import form.
FieldNames ==
    {"csvPath", "username", "apiUrl", "apiKey", "ratings", "history",
     "watchlist", "export", "animePath", "mangaPath", "exportPath", "mapping"}

\* The keys of the payload variants of the deploy-import-job input.
VariantKeys ==
    {"goodreads", "trakt", "audiobookshelf", "mediaTracker", "movary",
     "storyGraph", "mal", "strongApp", "json"}

\* The form schemas: each field is z.string() or z.string().url().
mediaTrackerImportFormSchema == [apiUrl |-> "url", apiKey |-> "string"]

\* Faulty variant of audiobookshelfImportFormSchema: apiUrl is z.string().
audiobookshelfImportFormSchema_PlainUrl == [apiUrl |-> "string", apiKey |-> "string"]

audiobookshelfImportFormSchema == [apiUrl |-> "url", apiKey |-> "string"]

traktImportFormSchema == [username |-> "string"]

goodreadsImportFormSchema == [csvPath |-> "string"]

\* Faulty variant of movaryImportFormSchema: watchlist is not declared.
movaryImportFormSchema_NoWatchlist == [ratings |-> "string", history |-> "string"]

movaryImportFormSchema ==
    [ratings |-> "string", history |-> "string", watchlist |-> "string"]

storyGraphImportFormSchema == [export |-> "string"]

strongAppImportFormSchema == [exportPath |-> "string", mapping |-> "string"]

jsonImportFormSchema == [export |-> "string"]

malImportFormSchema == [animePath |-> "string", mangaPath |-> "string"]

\* Sample texts of a URL input: z.string().url() accepts what new URL()
\* parses, so a host without a scheme is rejected.
GoodUrl == "https://abs.example.com"

BadUrl == "abs.example.com"

IsUrl(text) == text \in {GoodUrl}

\* Sample texts of the mapping input.
MappingTexts ==
    {"not json", "[]", "[{\"sourceName\":\"a\",\"targetName\":\"b\"}]",
     "[1]", "{}", "42"}

\* JSON.parse on the sample texts: the parsed value, or the SyntaxError.
JSONParse(text) ==
    CASE text = "[]" -> [type |-> "array", items |-> <<>>]
      [] text = "[{\"sourceName\":\"a\",\"targetName\":\"b\"}]" ->
            [type |-> "array",
             items |-> << [type |-> "object",
                           fields |-> [sourceName |-> "a", targetName |-> "b"]] >>]
      [] text = "[1]" ->
            [type |-> "array", items |-> << [type |-> "number", number |-> 1] >>]
      [] text = "{}" -> [type |-> "object", fields |-> <<>>]
      [] text = "42" -> [type |-> "number", number |-> 42]
      [] OTHER -> [type |-> "SyntaxError"]

\* processSubmission(formData, schema): the fields of the schema, parsed;
\* it throws when a field of the schema is missing or fails its format.
\* Keys the schema does not name are stripped.
processSubmission(fd, schema) ==
    IF \A f \in DOMAIN schema :
            /\ fd[f] # Undefined
            /\ schema[f] = "url" => IsUrl(fd[f][1])
    THEN [ok |-> TRUE, value |-> [f \in DOMAIN schema |-> fd[f][1]]]
    ELSE [ok |-> FALSE]

\* Faulty variant of Cases: the MediaTracker case fills the audiobookshelf
\* key.
Cases_MediaTrackerKey ==
    << [sources |-> {"Goodreads"}, key |-> "goodreads",
        schema |-> goodreadsImportFormSchema],
       [sources |-> {"Trakt"}, key |-> "trakt",
        schema |-> traktImportFormSchema],
       [sources |-> {"Audiobookshelf"}, key |-> "audiobookshelf",
        schema |-> audiobookshelfImportFormSchema],
       [sources |-> {"MediaTracker"}, key |-> "audiobookshelf",
        schema |-> mediaTrackerImportFormSchema],
       [sources |-> {"Movary"}, key |-> "movary",
        schema |-> movaryImportFormSchema],
       [sources |-> {"StoryGraph"}, key |-> "storyGraph",
        schema |-> storyGraphImportFormSchema],
       [sources |-> {"Mal"}, key |-> "mal",
        schema |-> malImportFormSchema],
       [sources |-> {"StrongApp"}, key |-> "strongApp",
        schema |-> strongAppImportFormSchema],
       [sources |-> {"MediaJson", "PeopleJson", "WorkoutsJson", "MeasurementsJson"},
        key |-> "json",
        schema |-> jsonImportFormSchema] >>

\* The .with(...) cases of match(source), in order: the sources of the
\* pattern, the key of the payload variant and the schema of the form.
Cases ==
    << [sources |-> {"Goodreads"}, key |-> "goodreads",
        schema |-> goodreadsImportFormSchema],
       [sources |-> {"Trakt"}, key |-> "trakt",
        schema |-> traktImportFormSchema],
       [sources |-> {"Audiobookshelf"}, key |-> "audiobookshelf",
        schema |-> audiobookshelfImportFormSchema],
       [sources |-> {"MediaTracker"}, key |-> "mediaTracker",
        schema |-> mediaTrackerImportFormSchema],
       [sources |-> {"Movary"}, key |-> "movary",
        schema |-> movaryImportFormSchema],
       [sources |-> {"StoryGraph"}, key |-> "storyGraph",
        schema |-> storyGraphImportFormSchema],
       [sources |-> {"Mal"}, key |-> "mal",
        schema |-> malImportFormSchema],
       [sources |-> {"StrongApp"}, key |-> "strongApp",
        schema |-> strongAppImportFormSchema],
       [sources |-> {"MediaJson", "PeopleJson", "WorkoutsJson", "MeasurementsJson"},
        key |-> "json",
        schema |-> jsonImportFormSchema] >>

\* match(source): the first case whose pattern holds the source, 0 when
\* no case does (then .exhaustive() throws).
MatchCase(src) ==
    LET hits == {k \in 1..Len(Cases) : src # Undefined /\ src[1] \in Cases[k].sources}
    IN  IF hits = {} THEN 0 ELSE CHOOSE k \in hits : \A h \in hits : k <= h

NoValues == [k \in VariantKeys |-> Undefined]

\* Faulty variant of RunCase: a SyntaxError of JSON.parse is caught and
\* read as the empty list.
RunCase_CatchesSyntaxError(c, fd) ==
    LET parsed == processSubmission(fd, c.schema)
    IN  IF ~parsed.ok THEN [error |-> "invalid submission", values |-> NoValues]
        ELSE IF c.key # "strongApp"
        THEN [error |-> NoError,
              values |-> [NoValues EXCEPT ![c.key] = Some(parsed.value)]]
        ELSE LET mapping == JSONParse(parsed.value.mapping)
                 list == IF mapping.type = "SyntaxError"
                         THEN [type |-> "array", items |-> <<>>] ELSE mapping
             IN  [error |-> NoError,
                  values |-> [NoValues EXCEPT
                        !["strongApp"] = Some([parsed.value EXCEPT !.mapping = list])]]

\* The handler of a case: the parsed form under the case's key; the
\* StrongApp case replaces mapping by JSON.parse(mapping).
RunCase(c, fd) ==
    LET parsed == processSubmission(fd, c.schema)
    IN  IF ~parsed.ok THEN [error |-> "invalid submission", values |-> NoValues]
        ELSE IF c.key # "strongApp"
        THEN [error |-> NoError,
              values |-> [NoValues EXCEPT ![c.key] = Some(parsed.value)]]
        ELSE LET mapping == JSONParse(parsed.value.mapping)
             IN  IF mapping.type = "SyntaxError"
                 THEN [error |-> "mapping is not JSON", values |-> NoValues]
                 ELSE [error |-> NoError,
                       values |-> [NoValues EXCEPT
                            !["strongApp"] =
                                Some([parsed.value EXCEPT !.mapping = mapping])]]

\* Faulty variant of Dispatch: .otherwise(() => ({})) in place of
\* .exhaustive().
Dispatch_SilentDefault(src, fd) ==
    LET k == MatchCase(src)
    IN  IF k = 0 THEN [error |-> NoError, values |-> NoValues]
        ELSE RunCase(Cases[k], fd)

\* const values = await match(source)...exhaustive()
Dispatch(src, fd) ==
    LET k == MatchCase(src)
    IN  IF k = 0 THEN [error |-> "no pattern matches", values |-> NoValues]
        ELSE RunCase(Cases[k], fd)

\* { input: { source, ...values } }
DeployImportInput(src, vals) ==
    [k \in {"source"} \cup VariantKeys |-> IF k = "source" THEN src ELSE vals[k]]

(***************************************************************************)
(* The import forms: the fields of the selected source take every option,  *)
(* the fields of the other sources are all left out or all filled in.      *)
(***************************************************************************)
FieldOptions(f) ==
    IF f = "apiUrl" THEN Opt({GoodUrl, BadUrl})
    ELSE IF f = "mapping" THEN Opt(MappingTexts)
    ELSE Opt({"upload.csv"})

FillValue(f) ==
    IF f = "apiUrl" THEN GoodUrl ELSE IF f = "mapping" THEN "[]" ELSE "upload.csv"

OwnFields(src) ==
    IF MatchCase(src) = 0 THEN {} ELSE DOMAIN Cases[MatchCase(src)].schema

ImportForms(src) ==
    {[f \in FieldNames |->
        IF f \in OwnFields(src) THEN own[f]
        ELSE IF extras THEN Some(FillValue(f)) ELSE Undefined] :
        own \in {g \in [OwnFields(src) -> UNION {FieldOptions(f) : f \in FieldNames}] :
                    \A f \in OwnFields(src) : g[f] \in FieldOptions(f)},
        extras \in BOOLEAN}

\* formData.get("source"): a source, nothing selected, or another text.
SubmittedSources == Opt(ImportSource \cup {"", "Imdb"})

BlankFormData == [f \in FieldNames |-> Undefined]

(***************************************************************************)
(* The handler as a state machine.  pc is the position in one invocation:  *)
(*   "idle"    the form has not been handled yet                           *)
(*   "request" the batch is built, the request is about to be sent         *)
(*   "done"    the handler returned its response                           *)
(*   "failed"  the handler threw                                           *)
(***************************************************************************)
Init ==
    /\ pc = "idle"
    /\ submission = BlankSubmission
    /\ updates = <<>>
    /\ needsFinalUpdate = TRUE
    /\ error = NoError
    /\ requests = <<>>
    /\ toast = "none"
    /\ source = Undefined
    /\ formData = BlankFormData
    /\ values = NoValues
    /\ jobs = <<>>

\* Lines 286-382: parse the form and build `updates`; invariant() throws
\* before anything is sent.
Handle(s) ==
    LET st == Expand(s)
    IN  /\ submission' = s
        /\ updates' = st.updates
        /\ needsFinalUpdate' = st.needsFinalUpdate
        /\ error' = st.error
        /\ pc' = IF st.error = NoError THEN "request" ELSE "failed"

progressUpdate ==
    /\ pc = "idle"
    /\ \/ \E l \in {"BOOK", "MOVIE"}, d \in Dates : Handle(SingleForm(l, d))
       \/ \E d \in Dates, n \in Opt(-1..MaxUnit), b \in BOOLEAN :
            Handle(AnimeForm(d, n, b))
       \/ \E d \in Dates, n \in Opt(-1..MaxUnit), b \in BOOLEAN :
            Handle(MangaForm(d, n, b))
       \/ \E S \in Opt(ShowStructures), f \in ShowFlags, n \in Opt(1..MaxSeasonNumber) :
            Handle(ShowForm(S, f, n))
       \/ \E d \in Dates, P \in Opt(PodcastStructures), c \in BOOLEAN, n \in Opt({1}) :
            Handle(PodcastForm(d, P, c, n))
       \/ \E l \in MetadataLot, f \in [1..6 -> BOOLEAN],
             n \in Opt({1, 3}) \X Opt({2}) \X Opt({2})
                    \X {<<1, Undefined>>, <<2, Some("2024-01-01")>>} \X BOOLEAN :
            Handle(ForeignForm(l, f, n))
    /\ UNCHANGED <<requests, toast>>
    /\ UNCHANGED importVars

\* Faulty variant of deployBulkProgressUpdate: one request per record.
deployBulkProgressUpdate_PerRecord ==
    /\ pc = "request"
    /\ requests' = requests \o [i \in 1..Len(updates) |-> << updates[i] >>]
    /\ \/ \E answer \in BOOLEAN :
            /\ toast' = IF answer THEN "success" ELSE "error"
            /\ pc' = "done"
            /\ error' = error
       \/ /\ pc' = "failed"
          /\ error' = "request rejected"
          /\ toast' = toast
    /\ UNCHANGED <<submission, updates, needsFinalUpdate>>
    /\ UNCHANGED importVars

\* Lines 383-399: one gqlClient.request with { input: updates }; the toast
\* reports the boolean the backend answers; a rejected request throws.
deployBulkProgressUpdate ==
    /\ pc = "request"
    /\ requests' = Append(requests, updates)
    /\ \/ \E answer \in BOOLEAN :
            /\ toast' = IF answer THEN "success" ELSE "error"
            /\ pc' = "done"
            /\ error' = error
       \/ /\ pc' = "failed"
          /\ error' = "request rejected"
          /\ toast' = toast
    /\ UNCHANGED <<submission, updates, needsFinalUpdate>>
    /\ UNCHANGED importVars

Next ==
    \/ progressUpdate
    \/ deployBulkProgressUpdate

Spec == Init /\ [][Next]_vars

(***************************************************************************)
(* The import route.  pc: "idle", then "deploy" once the payload is        *)
(* built, then "done"; "failed" when the handler threw.                    *)
(***************************************************************************)
progressVars == <<submission, updates, needsFinalUpdate, requests>>

\* Faulty variant of deployImport: the request is sent while the form is
\* being read, before the outcome of the dispatch is known.
deployImport_SendsBeforeValidation ==
    /\ pc = "idle"
    /\ \E src \in SubmittedSources :
         \E fd \in ImportForms(src) :
            LET out == Dispatch(src, fd)
            IN  /\ source' = src
                /\ formData' = fd
                /\ values' = out.values
                /\ error' = out.error
                /\ pc' = IF out.error = NoError THEN "deploy" ELSE "failed"
                /\ jobs' = Append(jobs, DeployImportInput(src, out.values))
    /\ UNCHANGED toast
    /\ UNCHANGED progressVars

\* Lines 98-145: read the source and build `values`; a schema failure, a
\* SyntaxError of JSON.parse and an unmatched source all throw here.
deployImport ==
    /\ pc = "idle"
    /\ \E src \in SubmittedSources :
         \E fd \in ImportForms(src) :
            LET out == Dispatch(src, fd)
            IN  /\ source' = src
                /\ formData' = fd
                /\ values' = out.values
                /\ error' = out.error
                /\ pc' = IF out.error = NoError THEN "deploy" ELSE "failed"
    /\ UNCHANGED <<jobs, toast>>
    /\ UNCHANGED progressVars

\* Lines 146-157: one gqlClient.request with { input: { source, ...values } },
\* then the success toast; a rejected request throws.
deployImportJob ==
    /\ pc = "deploy"
    /\ jobs' = Append(jobs, DeployImportInput(source, values))
    /\ \/ /\ pc' = "done"
          /\ toast' = "success"
          /\ error' = error
       \/ /\ pc' = "failed"
          /\ error' = "request rejected"
          /\ toast' = toast
    /\ UNCHANGED <<source, formData, values>>
    /\ UNCHANGED progressVars

NextImport ==
    \/ deployImport
    \/ deployImportJob

SpecImport == Init /\ [][NextImport]_vars


(***************************************************************************)
(* Vocabulary of the properties.                                           *)
(***************************************************************************)

\* The synchronous part ran to line 382 without throwing.
ExpansionReturned == pc # "idle" /\ error # "No season selected"

Lot(l) == submission.metadataLot = l

\* The intents of the specification, read off the submitted flags.
IsShowComplete == Lot("SHOW") /\ submission.completeShow /\ ~submission.onlySeason

IsShowSeason == Lot("SHOW") /\ submission.onlySeason /\ ~submission.completeShow

\* The seasons of the submitted structure that carry the submitted number.
TargetIndices ==
    {k \in 1..Len(showSpecifics(submission)) :
        Some(showSpecifics(submission)[k].seasonNumber) = submission.showSeasonNumber}

\* Number of episodes listed by the seasons before position k.
RECURSIVE EpisodesBefore(_, _)
EpisodesBefore(S, k) ==
    IF k <= 1 THEN 0 ELSE EpisodesBefore(S, k - 1) + Len(S[k - 1].episodes)

\* The records at the positions of season k carry season k's number and, in
\* order, its episode numbers.
SeasonAt(S, k) ==
    \A j \in 1..Len(S[k].episodes) :
        LET r == updates[EpisodesBefore(S, k) + j]
        IN  /\ r.showSeasonNumber = Some(S[k].seasonNumber)
            /\ r.showEpisodeNumber = Some(S[k].episodes[j])

\* The batch as (season, episode) pairs.
ShowPairs == [i \in 1..Len(updates) |->
                <<updates[i].showSeasonNumber, updates[i].showEpisodeNumber>>]

\* C1: for a ShowComplete intent the batch has exactly one record per
\* (season, episode) pair of the structure, sum(len(season.episodes)) in
\* all, in the structure's season order and each season's episode order.
C1_ShowCompleteOnePerEpisode ==
    (ExpansionReturned /\ IsShowComplete) =>
        LET S == showSpecifics(submission)
        IN  /\ Len(updates) = EpisodesBefore(S, Len(S) + 1)
            /\ \A k \in 1..Len(S) : SeasonAt(S, k)

C1_Witness ==
    /\ pc = "done"
    /\ IsShowComplete
    /\ submission.showSpecifics = Some(ExampleShow)
    /\ Len(updates) = 6

\* The position at which the scan of showAllSeasonsBefore stops: the first
\* season whose number exceeds the target, or past the end.
StopIndex(S, target) ==
    LET above == {k \in 1..Len(S) : S[k].seasonNumber > target}
    IN  IF above = {} THEN Len(S) + 1
        ELSE CHOOSE k \in above : \A h \in above : k <= h

\* C2: for a ShowSeason intent with allSeasonsBefore and the target present,
\* the batch is one record per episode of every season listed before the
\* first season whose number exceeds the target, in order; on the example
\* show with target 2 it is (1,1),(1,2),(2,1).
C2_SeasonsBeforeScan ==
    (ExpansionReturned /\ IsShowSeason /\ submission.showAllSeasonsBefore) =>
        LET S == showSpecifics(submission)
            stop == StopIndex(S, submission.showSeasonNumber[1])
        IN  /\ TargetIndices # {}
            /\ Len(updates) = EpisodesBefore(S, stop)
            /\ \A k \in 1..(stop - 1) : SeasonAt(S, k)
            /\ (submission.showSpecifics = Some(ExampleShow)
                    /\ submission.showSeasonNumber = Some(2))
                => ShowPairs = << <<Some(1), Some(1)>>, <<Some(1), Some(2)>>,
                                  <<Some(2), Some(1)>> >>

C2_Witness ==
    /\ pc = "done"
    /\ IsShowSeason
    /\ submission.showAllSeasonsBefore
    /\ submission.showSpecifics = Some(ExampleShow)
    /\ submission.showSeasonNumber = Some(2)
    /\ Len(updates) = 3

\* C3: for a ShowSeason intent without allSeasonsBefore and the target
\* present, the batch is exactly one record per episode of the target
\* season (the first season listed with that number), in order, and every
\* record carries the target season number.
C3_OnlyTargetSeason ==
    (ExpansionReturned /\ IsShowSeason /\ ~submission.showAllSeasonsBefore) =>
        \E k \in TargetIndices :
            LET selected == showSpecifics(submission)[k]
            IN  /\ \A h \in TargetIndices : k <= h
                /\ Len(updates) = Len(selected.episodes)
                /\ \A j \in 1..Len(updates) :
                    /\ updates[j].showEpisodeNumber = Some(selected.episodes[j])
                    /\ updates[j].showSeasonNumber = submission.showSeasonNumber
                    /\ updates[j].showSeasonNumber = Some(selected.seasonNumber)

C3_Witness ==
    /\ pc = "done"
    /\ IsShowSeason
    /\ ~submission.showAllSeasonsBefore
    /\ submission.showSpecifics = Some(ExampleShow)
    /\ submission.showSeasonNumber = Some(2)
    /\ ShowPairs = << <<Some(2), Some(1)>> >>

\* C4: for Anime with episode n >= 1 and allBefore, the batch is n records
\* with animeEpisodeNumber 1..n ascending and no final record.
C4_AnimeAllBefore ==
    (ExpansionReturned /\ Lot("ANIME") /\ submission.animeAllEpisodesBefore
        /\ submission.animeEpisodeNumber # Undefined
        /\ submission.animeEpisodeNumber[1] >= 1) =>
            /\ Len(updates) = submission.animeEpisodeNumber[1]
            /\ \A i \in 1..Len(updates) : updates[i].animeEpisodeNumber = Some(i)

C4_Witness ==
    /\ pc = "done"
    /\ Lot("ANIME")
    /\ submission.animeAllEpisodesBefore
    /\ submission.animeEpisodeNumber = Some(5)
    /\ Len(updates) = 5

\* C5: for Anime with episode n and allBefore not set, the batch is exactly
\* one record and its animeEpisodeNumber is n.
C5_AnimeSingle ==
    (ExpansionReturned /\ Lot("ANIME") /\ ~submission.animeAllEpisodesBefore
        /\ submission.animeEpisodeNumber # Undefined) =>
            /\ Len(updates) = 1
            /\ updates[1].animeEpisodeNumber = submission.animeEpisodeNumber

C5_Witness ==
    /\ pc = "done"
    /\ Lot("ANIME")
    /\ ~submission.animeAllEpisodesBefore
    /\ submission.animeEpisodeNumber = Some(5)
    /\ Len(updates) = 1

\* C6: Manga mirrors Anime: with chapter n >= 1 and allBefore the batch is n
\* records with mangaChapterNumber 1..n ascending and no final record;
\* without allBefore it is one record with mangaChapterNumber n.
C6_MangaSymmetric ==
    (ExpansionReturned /\ Lot("MANGA") /\ submission.mangaChapterNumber # Undefined) =>
        /\ (submission.mangaAllChaptersBefore /\ submission.mangaChapterNumber[1] >= 1) =>
            /\ Len(updates) = submission.mangaChapterNumber[1]
            /\ \A i \in 1..Len(updates) : updates[i].mangaChapterNumber = Some(i)
        /\ ~submission.mangaAllChaptersBefore =>
            /\ Len(updates) = 1
            /\ updates[1].mangaChapterNumber = submission.mangaChapterNumber

C6_Witness ==
    /\ pc = "done"
    /\ Lot("MANGA")
    /\ submission.mangaAllChaptersBefore
    /\ submission.mangaChapterNumber = Some(3)
    /\ Len(updates) = 3

\* C7: for Podcast with a PodcastComplete intent, the batch is one record
\* per episode of the podcast structure, carrying that episode's number, in
\* structure order, with no final record.
C7_PodcastComplete ==
    (ExpansionReturned /\ Lot("PODCAST") /\ submission.completePodcast) =>
        LET P == podcastSpecifics(submission)
        IN  /\ Len(updates) = Len(P)
            /\ \A j \in 1..Len(P) :
                updates[j].podcastEpisodeNumber = Some(P[j].episodeNumber)

C7_Witness ==
    /\ pc = "done"
    /\ Lot("PODCAST")
    /\ submission.completePodcast
    /\ submission.podcastSpecifics = Some(<<[episodeNumber |-> 2], [episodeNumber |-> 1]>>)
    /\ Len(updates) = 2


(***************************************************************************)
(* Properties of action.progressUpdate.                                    *)
(***************************************************************************)

\* No block of the handler that pushes several records is entered.
NoMultiRecordBranch ==
    /\ ~(Lot("ANIME") /\ Truthy(submission.animeEpisodeNumber)
            /\ submission.animeAllEpisodesBefore)
    /\ ~(Lot("MANGA") /\ Truthy(submission.mangaChapterNumber)
            /\ submission.mangaAllChaptersBefore)
    /\ ~(Lot("SHOW") /\ (submission.completeShow \/ submission.onlySeason))
    /\ ~(Lot("PODCAST") /\ submission.completePodcast)

\* C8: when no multi-record branch fires, the batch is exactly one record
\* and its showSeasonNumber, showEpisodeNumber, podcastEpisodeNumber,
\* animeEpisodeNumber and mangaChapterNumber are the submitted ones.
C8_SingleFlatRecord ==
    (pc # "idle" /\ NoMultiRecordBranch) =>
        /\ ExpansionReturned
        /\ Len(updates) = 1
        /\ updates[1].showSeasonNumber = submission.showSeasonNumber
        /\ updates[1].showEpisodeNumber = submission.showEpisodeNumber
        /\ updates[1].podcastEpisodeNumber = submission.podcastEpisodeNumber
        /\ updates[1].animeEpisodeNumber = submission.animeEpisodeNumber
        /\ updates[1].mangaChapterNumber = submission.mangaChapterNumber

\* A ShowEpisode intent: season and episode submitted, no flag set.
C8_Witness ==
    /\ pc = "done"
    /\ Lot("SHOW")
    /\ NoMultiRecordBranch
    /\ submission.showSpecifics = Some(ExampleShow)
    /\ submission.showSeasonNumber = Some(2)
    /\ submission.showEpisodeNumber = Some(1)
    /\ ShowPairs = << <<Some(2), Some(1)>> >>

\* C9, as claimed: whenever the expansion returns without an error the
\* batch is non-empty.
C9_NonEmptyBatch == ExpansionReturned => updates # <<>>

\* The submissions whose multi-record branch iterates over nothing: a
\* negative anime or manga number with allBefore; a Show request whose
\* entered blocks (completeShow over all seasons, onlySeason over the
\* scanned seasons or the target season) list no episode; completePodcast
\* over an empty list.
IteratesOverNothing ==
    LET S == showSpecifics(submission)
    IN  \/ /\ Lot("ANIME") /\ submission.animeAllEpisodesBefore
           /\ submission.animeEpisodeNumber # Undefined
           /\ submission.animeEpisodeNumber[1] < 0
        \/ /\ Lot("MANGA") /\ submission.mangaAllChaptersBefore
           /\ submission.mangaChapterNumber # Undefined
           /\ submission.mangaChapterNumber[1] < 0
        \/ /\ Lot("SHOW") /\ (submission.completeShow \/ submission.onlySeason)
           /\ submission.completeShow => \A k \in 1..Len(S) : S[k].episodes = <<>>
           /\ (submission.onlySeason /\ submission.showAllSeasonsBefore) =>
                \A k \in 1..(StopIndex(S, submission.showSeasonNumber[1]) - 1) :
                    S[k].episodes = <<>>
           /\ (submission.onlySeason /\ ~submission.showAllSeasonsBefore) =>
                \E k \in TargetIndices :
                    /\ \A h \in TargetIndices : k <= h
                    /\ S[k].episodes = <<>>
        \/ /\ Lot("PODCAST") /\ submission.completePodcast
           /\ podcastSpecifics(submission) = <<>>

\* C9, amended: when the expansion returns without an error, the batch is
\* empty exactly when a multi-record branch was entered and iterated over
\* nothing; in every other case, and whenever the final flat record is
\* pushed, it is non-empty.
C9_EmptyOnlyWhenNothingToIterate ==
    ExpansionReturned =>
        /\ (updates = <<>>) <=> IteratesOverNothing
        /\ needsFinalUpdate => updates # <<>>

\* A non-empty batch from a multi-record branch, and the handler returned.
C9_Witness ==
    /\ pc = "done"
    /\ Lot("PODCAST")
    /\ submission.completePodcast
    /\ ~needsFinalUpdate
    /\ Len(updates) = 2

\* C10: a Show submission with onlySeason whose season number matches no
\* season of the structure fails with the error of invariant(), and no
\* bulk progress-update request is sent.
C10_MissingSeasonFails ==
    (pc # "idle" /\ Lot("SHOW") /\ submission.onlySeason /\ TargetIndices = {}) =>
        /\ pc = "failed"
        /\ error = "No season selected"
        /\ requests = <<>>
        /\ toast = "none"

C10_Witness ==
    /\ pc = "failed"
    /\ IsShowSeason
    /\ submission.showSpecifics = Some(ExampleShow)
    /\ submission.showSeasonNumber = Undefined
    /\ requests = <<>>


\* A ShowEpisode intent: kind Show, neither completeShow nor onlySeason.
IsShowEpisode == Lot("SHOW") /\ ~submission.completeShow /\ ~submission.onlySeason

\* The submitted (season, episode) pair is not listed by the structure.
EpisodeAbsent ==
    LET S == showSpecifics(submission)
    IN  ~\E k \in 1..Len(S) :
            /\ Some(S[k].seasonNumber) = submission.showSeasonNumber
            /\ \E j \in 1..Len(S[k].episodes) :
                Some(S[k].episodes[j]) = submission.showEpisodeNumber

\* C11, as claimed: a ShowEpisode intent whose season or episode is absent
\* from the structure fails with a validation error and produces no record.
C11_AbsentEpisodeFails ==
    (pc # "idle" /\ IsShowEpisode /\ EpisodeAbsent) =>
        /\ pc = "failed"
        /\ updates = <<>>
        /\ requests = <<>>

\* C11, amended: a ShowEpisode intent is not validated against the
\* structure; with the season or episode absent the expansion returns and
\* the batch is the single flat record with the submitted season and
\* episode numbers.
C11_AbsentEpisodeFallsThrough ==
    (pc # "idle" /\ IsShowEpisode /\ EpisodeAbsent) =>
        /\ ExpansionReturned
        /\ needsFinalUpdate
        /\ Len(updates) = 1
        /\ updates[1].showSeasonNumber = submission.showSeasonNumber
        /\ updates[1].showEpisodeNumber = submission.showEpisodeNumber

\* Episode 1 of season 2 of a show that lists season 1 only is submitted
\* and sent.
C11_Witness ==
    /\ pc = "done"
    /\ IsShowEpisode
    /\ EpisodeAbsent
    /\ submission.showSpecifics = Some(<<[seasonNumber |-> 1, episodes |-> <<1>>]>>)
    /\ submission.showSeasonNumber = Some(2)
    /\ submission.showEpisodeNumber = Some(1)
    /\ requests = << updates >>
    /\ Len(updates) = 1


\* The lot needs a structure and the form carries none (the field is
\* missing or empty).
StructureMissing ==
    \/ Lot("SHOW") /\ submission.showSpecifics = Undefined
    \/ Lot("PODCAST") /\ submission.podcastSpecifics = Undefined

C13_CommonFields ==
    pc # "idle" =>
        \A i \in 1..Len(updates) :
            /\ updates[i].metadataId = submission.metadataId
            /\ updates[i].date = submission.date
            /\ updates[i].progress = 100

\* A whole show marked as seen on a given date.
C13_Witness ==
    /\ pc = "done"
    /\ IsShowComplete
    /\ submission.metadataId = 2
    /\ submission.date = Some("2024-01-01")
    /\ Len(updates) = 3
    /\ requests = << updates >>


\* C15: a successful progressUpdate sends the whole batch in exactly one
\* bulk request holding all records in expansion order; there is never a
\* second request, a retry after a rejected request, or a request with
\* only part of the batch.
C15_OneBulkRequest ==
    /\ Len(requests) <= 1
    /\ \A i \in 1..Len(requests) : requests[i] = updates
    /\ pc \in {"idle", "request"} => requests = <<>>
    /\ pc = "done" => requests = << updates >>
    /\ (pc = "failed" /\ error = "request rejected") => requests = << updates >>

C15_Witness ==
    /\ pc = "done"
    /\ toast = "success"
    /\ IsShowSeason
    /\ submission.showAllSeasonsBefore
    /\ submission.showSpecifics = Some(ExampleShow)
    /\ Len(updates) = 3
    /\ requests = << updates >>


(***************************************************************************)
(* Properties of action.deployImport, under SpecImport.                    *)
(***************************************************************************)

\* The table of the specification: the payload variant of a source.
TableVariant(s) ==
    CASE s = "Goodreads" -> "goodreads"
      [] s = "Trakt" -> "trakt"
      [] s = "Audiobookshelf" -> "audiobookshelf"
      [] s = "MediaTracker" -> "mediaTracker"
      [] s = "Movary" -> "movary"
      [] s = "StoryGraph" -> "storyGraph"
      [] s = "Mal" -> "mal"
      [] s = "StrongApp" -> "strongApp"
      [] OTHER -> "json"

\* The table of the specification: the required fields of a source.
TableFields(s) ==
    CASE s = "Goodreads" -> {"csvPath"}
      [] s = "Trakt" -> {"username"}
      [] s \in {"Audiobookshelf", "MediaTracker"} -> {"apiUrl", "apiKey"}
      [] s = "Movary" -> {"ratings", "history", "watchlist"}
      [] s = "Mal" -> {"animePath", "mangaPath"}
      [] s = "StrongApp" -> {"exportPath", "mapping"}
      [] OTHER -> {"export"}

\* The dispatch (lines 98-145) returned a payload, or threw.
DispatchSucceeded ==
    pc \in {"deploy", "done"} \/ (pc = "failed" /\ error = "request rejected")

DispatchFailed ==
    /\ pc = "failed"
    /\ error \in {"invalid submission", "mapping is not JSON", "no pattern matches"}

SourceIs(s) == source = Some(s)

Populated(input) == {k \in VariantKeys : input[k] # Undefined}

\* The payload a request must carry for the selected source.
WellShaped(input) ==
    /\ input["source"] = source
    /\ Populated(input) = {TableVariant(source[1])}
    /\ DOMAIN input[TableVariant(source[1])][1] = TableFields(source[1])

\* C16: every import job request has exactly one payload variant, the one
\* the table assigns to the selected source, holding that source's fields
\* and no field of another variant, and its source is the selected source.
C16_OneVariantPerRequest ==
    /\ DispatchSucceeded => WellShaped(DeployImportInput(source, values))
    /\ \A i \in 1..Len(jobs) : WellShaped(jobs[i])

\* A MediaTracker import from a form that also carries the inputs of the
\* other sources.
C16_Witness ==
    /\ pc = "done"
    /\ SourceIs("MediaTracker")
    /\ formData["csvPath"] # Undefined
    /\ formData["mapping"] # Undefined
    /\ Len(jobs) = 1
    /\ jobs[1]["mediaTracker"] = Some([apiUrl |-> GoodUrl, apiKey |-> "upload.csv"])

\* Well-formed JSON among the sample mapping texts.
WellFormedJson == {"[]", "[{\"sourceName\":\"a\",\"targetName\":\"b\"}]", "[1]", "{}", "42"}

FieldValid(f) ==
    /\ formData[f] # Undefined
    /\ f = "apiUrl" => formData[f][1] = GoodUrl
    /\ f = "mapping" => formData[f][1] \in WellFormedJson

\* C17: for every import source, dispatch succeeds when every required
\* field of the source is present and valid, and fails, sending nothing,
\* whenever a required field is absent (so also for the empty form).
C17_RequiredFields ==
    (pc # "idle" /\ source # Undefined /\ source[1] \in ImportSource) =>
        /\ (\A f \in TableFields(source[1]) : FieldValid(f)) => DispatchSucceeded
        /\ (\E f \in TableFields(source[1]) : formData[f] = Undefined) =>
                /\ pc = "failed"
                /\ error = "invalid submission"
                /\ jobs = <<>>

\* Movary with ratings and history but no watchlist, although the inputs
\* of the other sources are filled in.
C17_Witness ==
    /\ pc = "failed"
    /\ SourceIs("Movary")
    /\ formData["ratings"] # Undefined
    /\ formData["history"] # Undefined
    /\ formData["watchlist"] = Undefined
    /\ formData["export"] # Undefined
    /\ jobs = <<>>

\* C18: StrongApp with exportPath present fails on the mapping when the
\* mapping text is not well-formed JSON, and succeeds with an empty mapping
\* list when the text is "[]".
C18_StrongAppMapping ==
    (pc # "idle" /\ SourceIs("StrongApp") /\ formData["exportPath"] # Undefined) =>
        /\ formData["mapping"] = Some("not json") =>
                /\ pc = "failed"
                /\ error = "mapping is not JSON"
                /\ jobs = <<>>
        /\ formData["mapping"] = Some("[]") =>
                /\ DispatchSucceeded
                /\ values["strongApp"] # Undefined
                /\ values["strongApp"][1].mapping = [type |-> "array", items |-> <<>>]
                /\ values["strongApp"][1].exportPath = formData["exportPath"][1]

C18_Witness ==
    /\ pc = "failed"
    /\ SourceIs("StrongApp")
    /\ formData["exportPath"] = Some("upload.csv")
    /\ formData["mapping"] = Some("not json")
    /\ error = "mapping is not JSON"

\* C19: Audiobookshelf and MediaTracker fail when apiUrl is present but not
\* a well-formed URL, even with apiKey present; they succeed only when
\* apiUrl is a well-formed URL and apiKey is present.
C19_ApiUrlMustBeUrl ==
    (pc # "idle" /\ (SourceIs("Audiobookshelf") \/ SourceIs("MediaTracker"))) =>
        /\ (formData["apiUrl"] = Some(BadUrl) /\ formData["apiKey"] # Undefined) =>
                /\ pc = "failed"
                /\ error = "invalid submission"
                /\ jobs = <<>>
        /\ DispatchSucceeded <=>
                (formData["apiUrl"] = Some(GoodUrl) /\ formData["apiKey"] # Undefined)

C19_Witness ==
    /\ pc = "failed"
    /\ SourceIs("Audiobookshelf")
    /\ formData["apiUrl"] = Some(BadUrl)
    /\ formData["apiKey"] # Undefined
    /\ jobs = <<>>

\* C20: every import source is handled by exactly one case, and a source
\* that matches no case (missing, or a text outside the handled set) makes
\* deployImport fail: no request without a payload variant is sent.
C20_ExhaustiveDispatch ==
    /\ \A s \in ImportSource :
            Cardinality({k \in 1..Len(Cases) : s \in Cases[k].sources}) = 1
    /\ (pc # "idle" /\ (source = Undefined \/ source[1] \notin ImportSource)) =>
            /\ pc = "failed"
            /\ error = "no pattern matches"
            /\ jobs = <<>>
    /\ \A i \in 1..Len(jobs) : Populated(jobs[i]) # {}

C20_Witness ==
    /\ pc = "failed"
    /\ SourceIs("Imdb")
    /\ formData["export"] # Undefined
    /\ error = "no pattern matches"
    /\ jobs = <<>>

\* C21: in deployImport validation precedes submission: the request is sent
\* at most once per invocation, only after the dispatch returned a payload,
\* and never when the dispatch threw (missing field, malformed URL,
\* malformed mapping JSON, unhandled source).
C21_ValidationPrecedesSubmission ==
    /\ Len(jobs) <= 1
    /\ pc \in {"idle", "deploy"} => jobs = <<>>
    /\ DispatchFailed => jobs = <<>>
    /\ jobs # <<>> =>
            /\ pc = "done" \/ (pc = "failed" /\ error = "request rejected")
            /\ Dispatch(source, formData).error = NoError
            /\ jobs = << DeployImportInput(source, Dispatch(source, formData).values) >>

\* A StrongApp import whose mapping parsed: one request, after the parse.
C21_Witness ==
    /\ pc = "done"
    /\ SourceIs("StrongApp")
    /\ formData["mapping"] = Some("[{\"sourceName\":\"a\",\"targetName\":\"b\"}]")
    /\ Len(jobs) = 1
    /\ jobs[1]["strongApp"] # Undefined

\* Number of records the blocks of the Show branch push for the submitted
\* flags, the target season being at position k of the structure.
ShowBlockRecords(k) ==
    LET S == showSpecifics(submission)
    IN  (IF submission.completeShow THEN EpisodesBefore(S, Len(S) + 1) ELSE 0)
        + (IF submission.showAllSeasonsBefore
           THEN EpisodesBefore(S, StopIndex(S, S[k].seasonNumber))
           ELSE Len(S[k].episodes))

\* C22: a season request is terminal: for kind Show with onlySeason set and
\* the target season found, the batch holds the episode records of the
\* entered blocks and no final record built from the flat fields, whatever
\* showAllSeasonsBefore is and however many records were pushed (also none).
C22_SeasonRequestIsTerminal ==
    (pc # "idle" /\ Lot("SHOW") /\ submission.onlySeason /\ TargetIndices # {}) =>
        LET k == CHOOSE h \in TargetIndices : \A g \in TargetIndices : h <= g
        IN  /\ ExpansionReturned
            /\ ~needsFinalUpdate
            /\ Len(updates) = ShowBlockRecords(k)
            /\ \A i \in 1..Len(updates) : updates[i].showEpisodeNumber # Undefined

\* Season 1 and all seasons before it, season 1 listing no episode: nothing
\* is pushed and the flat record is not added.
C22_Witness ==
    /\ pc = "done"
    /\ IsShowSeason
    /\ submission.showAllSeasonsBefore
    /\ submission.showSpecifics = Some(<< [seasonNumber |-> 1, episodes |-> <<>>] >>)
    /\ submission.showSeasonNumber = Some(1)
    /\ updates = <<>>
    /\ ~needsFinalUpdate

\* Record i of the batch is a record of an episode of the season at k.
FromSeason(S, k, i) ==
    /\ updates[i].showSeasonNumber = Some(S[k].seasonNumber)
    /\ \E j \in 1..Len(S[k].episodes) :
            updates[i].showEpisodeNumber = Some(S[k].episodes[j])

\* C23: for a ShowSeason intent with allSeasonsBefore the scan stops at the
\* first season, in structure order, whose number exceeds the target: only
\* the seasons listed before it contribute records, no season at or after
\* it does, whatever its number; a target season listed after it
\* contributes nothing.
C23_BreakOnFirstExceeding ==
    (ExpansionReturned /\ IsShowSeason /\ submission.showAllSeasonsBefore) =>
        LET S == showSpecifics(submission)
            stop == StopIndex(S, submission.showSeasonNumber[1])
        IN  /\ Len(updates) = EpisodesBefore(S, stop)
            /\ \A i \in 1..Len(updates) : \E k \in 1..(stop - 1) : FromSeason(S, k, i)
            /\ (\A k \in TargetIndices : k > stop) =>
                    \A i \in 1..Len(updates) :
                        updates[i].showSeasonNumber # submission.showSeasonNumber
            /\ stop = 1 => updates = <<>>

\* Season 2 is listed before season 1 and season 1 is requested with all
\* seasons before: the scan stops at once and season 1 contributes nothing.
C23_Witness ==
    /\ pc = "done"
    /\ IsShowSeason
    /\ submission.showAllSeasonsBefore
    /\ submission.showSpecifics = Some(<< [seasonNumber |-> 2, episodes |-> <<1>>],
                                          [seasonNumber |-> 1, episodes |-> <<1, 2>>] >>)
    /\ submission.showSeasonNumber = Some(1)
    /\ updates = <<>>

\* The first season listed with the submitted number lists no episode.
TargetSeasonEmpty ==
    /\ TargetIndices # {}
    /\ LET k == CHOOSE h \in TargetIndices : \A g \in TargetIndices : h <= g
       IN  showSpecifics(submission)[k].episodes = <<>>

\* C24: a ShowSeason intent without allSeasonsBefore whose target season
\* exists and lists no episode, and a PodcastComplete intent over an empty
\* episode list, return the empty batch and raise no validation error.
C24_EmptyTargetIsEmptyBatch ==
    /\ (pc # "idle" /\ IsShowSeason /\ ~submission.showAllSeasonsBefore
            /\ TargetSeasonEmpty) =>
                /\ ExpansionReturned
                /\ error \in {NoError, "request rejected"}
                /\ updates = <<>>
    /\ (pc # "idle" /\ Lot("PODCAST") /\ submission.completePodcast
            /\ podcastSpecifics(submission) = <<>>) =>
                /\ ExpansionReturned
                /\ error \in {NoError, "request rejected"}
                /\ updates = <<>>

\* Season 2 of a show whose season 2 lists no episode.
C24_Witness ==
    /\ pc = "request"
    /\ error = NoError
    /\ IsShowSeason
    /\ ~submission.showAllSeasonsBefore
    /\ submission.showSpecifics = Some(<< [seasonNumber |-> 1, episodes |-> <<1, 2>>],
                                          [seasonNumber |-> 2, episodes |-> <<>>] >>)
    /\ submission.showSeasonNumber = Some(2)
    /\ updates = <<>>

\* C25: when the expanded batch is empty the handler treats it as nothing
\* to submit: no bulk progress-update request is sent for it and the action
\* reports no error.
C25_EmptyBatchNotSent ==
    (ExpansionReturned /\ updates = <<>>) =>
        /\ requests = <<>>
        /\ error = NoError
        /\ toast # "error"

\* The (season, episode) pairs a structure lists, in listing order.
RECURSIVE StructurePairs(_)
StructurePairs(S) ==
    IF S = <<>> THEN <<>>
    ELSE [j \in 1..Len(Head(S).episodes) |->
            <<Some(Head(S).seasonNumber), Some(Head(S).episodes[j])>>]
         \o StructurePairs(Tail(S))

\* Order of two (season, episode) pairs: by season number, then by episode
\* number.
PairBefore(a, b) ==
    \/ a[1][1] < b[1][1]
    \/ a[1][1] = b[1][1] /\ a[2][1] < b[2][1]

BatchNotDescending ==
    \A i \in 1..Len(updates), j \in 1..Len(updates) :
        i < j => ~PairBefore(ShowPairs[j], ShowPairs[i])

BatchAscending ==
    \A i \in 1..Len(updates), j \in 1..Len(updates) :
        i < j => PairBefore(ShowPairs[i], ShowPairs[j])

\* The structure lists its seasons by strictly ascending number and every
\* season its episodes by strictly ascending number.
StructureAscending(S) ==
    /\ \A k \in 1..(Len(S) - 1) : S[k].seasonNumber < S[k + 1].seasonNumber
    /\ \A k \in 1..Len(S) : \A j \in 1..(Len(S[k].episodes) - 1) :
            S[k].episodes[j] < S[k].episodes[j + 1]

\* C26, as claimed: for a ShowComplete or ShowSeason intent the records are
\* in ascending order by season number and, within a season, by episode
\* number, for every structure the expansion accepts.
C26_AlwaysAscending ==
    (ExpansionReturned /\ (IsShowComplete \/ IsShowSeason)) => BatchNotDescending

\* C26, amended: for a ShowComplete or ShowSeason intent the records follow
\* the listing order of the structure (the seasons as listed, each season's
\* episodes as listed); the batch is ascending by season then episode
\* whenever the structure lists seasons and episodes in ascending order.
C26_StructureOrder ==
    (ExpansionReturned /\ (IsShowComplete \/ IsShowSeason)) =>
        LET S == showSpecifics(submission)
        IN  /\ IsShowComplete => ShowPairs = StructurePairs(S)
            /\ (IsShowSeason /\ submission.showAllSeasonsBefore) =>
                    ShowPairs = StructurePairs(
                        SubSeq(S, 1, StopIndex(S, submission.showSeasonNumber[1]) - 1))
            /\ (IsShowSeason /\ ~submission.showAllSeasonsBefore) =>
                    \E k \in TargetIndices :
                        /\ \A h \in TargetIndices : k <= h
                        /\ ShowPairs = StructurePairs(<< S[k] >>)
            /\ StructureAscending(S) => BatchAscending

\* A whole show of two seasons of two episodes, listed in ascending
\* order: four records in ascending order.
C26_Witness ==
    /\ pc = "done"
    /\ IsShowComplete
    /\ submission.showSpecifics = Some(<< [seasonNumber |-> 1, episodes |-> <<1, 2>>],
                                          [seasonNumber |-> 2, episodes |-> <<1, 2>>] >>)
    /\ StructureAscending(showSpecifics(submission))
    /\ ShowPairs = << <<Some(1), Some(1)>>, <<Some(1), Some(2)>>,
                      <<Some(2), Some(1)>>, <<Some(2), Some(2)>> >>

\* A parsed JSON value that is a list of {sourceName, targetName} objects.
IsPairList(m) ==
    /\ m.type = "array"
    /\ \A i \in 1..Len(m.items) :
            /\ m.items[i].type = "object"
            /\ DOMAIN m.items[i].fields = {"sourceName", "targetName"}

\* C27: whenever the dispatch for StrongApp succeeds the mapping of the
\* payload is a list of {sourceName, targetName} pairs; a mapping text that
\* is well-formed JSON but not such a list (an object, a number, a list of
\* something else) is rejected and nothing is sent.
C27_MappingIsPairList ==
    (pc # "idle" /\ SourceIs("StrongApp")) =>
        /\ DispatchSucceeded => IsPairList(values["strongApp"][1].mapping)
        /\ formData["mapping"] \in {Some("{}"), Some("42"), Some("[1]")} =>
                /\ pc = "failed"
                /\ jobs = <<>>

\* The expansion flags of a lot.
OwnFlags(l) ==
    CASE l = "ANIME" -> {"animeAllEpisodesBefore"}
      [] l = "MANGA" -> {"mangaAllChaptersBefore"}
      [] l = "SHOW" -> {"completeShow", "onlySeason", "showAllSeasonsBefore"}
      [] l = "PODCAST" -> {"completePodcast"}
      [] OTHER -> {}

FlagsSet ==
    {f \in {"animeAllEpisodesBefore", "mangaAllChaptersBefore", "completeShow",
            "onlySeason", "showAllSeasonsBefore", "completePodcast"} : submission[f]}

\* Some flag is set and every flag set belongs to another lot.
ForeignFlagsOnly ==
    /\ FlagsSet # {}
    /\ FlagsSet \cap OwnFlags(submission.metadataLot) = {}

\* The record of the submitted flat fields.
FlatRecord ==
    [ metadataId           |-> submission.metadataId,
      progress             |-> 100,
      date                 |-> submission.date,
      showSeasonNumber     |-> submission.showSeasonNumber,
      showEpisodeNumber    |-> submission.showEpisodeNumber,
      podcastEpisodeNumber |-> submission.podcastEpisodeNumber,
      animeEpisodeNumber   |-> submission.animeEpisodeNumber,
      mangaChapterNumber   |-> submission.mangaChapterNumber ]

BothShowFlags == Lot("SHOW") /\ submission.completeShow /\ submission.onlySeason

\* No two seasons of the structure carry the same number and no season
\* lists an episode number twice.
UniqueNumbers(S) ==
    /\ \A k \in 1..Len(S), h \in 1..Len(S) :
            S[k].seasonNumber = S[h].seasonNumber => k = h
    /\ \A k \in 1..Len(S) : \A i \in 1..Len(S[k].episodes), j \in 1..Len(S[k].episodes) :
            S[k].episodes[i] = S[k].episodes[j] => i = j

Occurrences(r) == Cardinality({i \in 1..Len(updates) : updates[i] = r})

\* C29: the completeShow and onlySeason blocks are not exclusive.  With
\* both flags set and the target season present the batch is the whole
\* ShowComplete expansion followed by the ShowSeason expansion, so every
\* record of the season request repeats a record of the first part (with
\* unique season and episode numbers it occurs exactly twice); with the target absent
\* the action fails and the records already pushed are not sent.
C29_BothShowBlocksRun ==
    (pc # "idle" /\ BothShowFlags) =>
        LET S == showSpecifics(submission)
            total == EpisodesBefore(S, Len(S) + 1)
        IN  IF TargetIndices = {}
            THEN /\ pc = "failed"
                 /\ error = "No season selected"
                 /\ Len(updates) = total
                 /\ ShowPairs = StructurePairs(S)
                 /\ requests = <<>>
                 /\ toast = "none"
            ELSE LET k == CHOOSE h \in TargetIndices : \A g \in TargetIndices : h <= g
                     part == IF submission.showAllSeasonsBefore
                             THEN SubSeq(S, 1, StopIndex(S, S[k].seasonNumber) - 1)
                             ELSE << S[k] >>
                 IN  /\ ExpansionReturned
                     /\ ShowPairs = StructurePairs(S) \o StructurePairs(part)
                     /\ \A i \in (total + 1)..Len(updates) :
                            /\ \E h \in 1..total : updates[h] = updates[i]
                            /\ UniqueNumbers(S) => Occurrences(updates[i]) = 2

\* Season 2 of the example show requested together with the whole show:
\* six records, then (2,1) again.
C29_Witness ==
    /\ pc = "done"
    /\ BothShowFlags
    /\ ~submission.showAllSeasonsBefore
    /\ submission.showSpecifics = Some(ExampleShow)
    /\ submission.showSeasonNumber = Some(2)
    /\ Len(updates) = 7
    /\ ShowPairs[7] = <<Some(2), Some(1)>>
    /\ requests = << updates >>

\* The reference of the specification: the (season, episode) pairs of
\* every season whose number is at most the target, in listing order.
RECURSIVE FilterPairs(_, _)
FilterPairs(S, target) ==
    IF S = <<>> THEN <<>>
    ELSE (IF Head(S).seasonNumber <= target THEN StructurePairs(<< Head(S) >>) ELSE <<>>)
         \o FilterPairs(Tail(S), target)

\* The season numbers of the structure are listed in strictly ascending
\* order (and so are unique).
SeasonsAscending(S) ==
    \A k \in 1..(Len(S) - 1) : S[k].seasonNumber < S[k + 1].seasonNumber

\* C30: when the structure lists unique season numbers in strictly
\* ascending order, the ShowSeason expansion with allSeasonsBefore is the
\* reference `every episode of every season whose number is at most the
\* target, in listing order`: the scan that breaks on the first exceeding
\* season and the filter by number give the same batch, and every episode
\* of the target season is in it.
C30_ScanEqualsFilter ==
    (ExpansionReturned /\ IsShowSeason /\ submission.showAllSeasonsBefore
        /\ SeasonsAscending(showSpecifics(submission))) =>
            LET S == showSpecifics(submission)
                target == submission.showSeasonNumber[1]
            IN  /\ ShowPairs = FilterPairs(S, target)
                /\ \A k \in TargetIndices : \A j \in 1..Len(S[k].episodes) :
                        \E i \in 1..Len(updates) :
                            ShowPairs[i] = <<Some(target), Some(S[k].episodes[j])>>

\* Season 2 of a show listing seasons 1 and 2 in order, with all seasons
\* before: season 1's episode, then both episodes of season 2.
C30_Witness ==
    /\ pc = "done"
    /\ IsShowSeason
    /\ submission.showAllSeasonsBefore
    /\ submission.showSpecifics = Some(<< [seasonNumber |-> 1, episodes |-> <<1>>],
                                          [seasonNumber |-> 2, episodes |-> <<1, 2>>] >>)
    /\ submission.showSeasonNumber = Some(2)
    /\ ShowPairs = << <<Some(1), Some(1)>>, <<Some(2), Some(1)>>, <<Some(2), Some(2)>> >>

=============================================================================
